---- MODULE Spec2Model ----
(***************************************************************************)
(* Model of the jobly data-access layer: helpers/sql.js                    *)
(* (sqlForPartialUpdate), models/company.js (class Company) and            *)
(* models/job.js (class Job), together with the storage they issue their   *)
(* parameterized statements to.                                            *)
(*                                                                         *)
(* JavaScript values are modelled as tagged records, text as sequences of  *)
(* one-character strings, and an SQL statement as its structure: verb,     *)
(* table, SET / VALUES / WHERE fragments each carrying the number of its   *)
(* $n placeholder (0 when the fragment has none), ORDER BY column and the  *)
(* ordered list of bound values.                                           *)
(***************************************************************************)
EXTENDS Integers, Sequences, FiniteSets, TLC

VARIABLES companies, jobs, nextId, last, inflight, started

vars == <<companies, jobs, nextId, last, inflight, started>>

(***************************************************************************)
(* Bounds of the model.                                                    *)
(***************************************************************************)
\* largest employee count / salary / numeric filter value that is explored
MaxNum == 2
\* largest number of fields in one update request
MaxKeys == 2
\* number of jobs created on top of the fixture
MaxJobs == 1
\* number of calls started when calls overlap
MaxCalls == 3

(***************************************************************************)
(* JavaScript values.                                                      *)
(*   t = "undef" | "null" | "bool" | "num" | "str"                         *)
(*   a number is n / 10^k in lowest scale, a boolean is n = 1 or 0,        *)
(*   a string is the character sequence s.                                 *)
(* A cell of a NUMERIC column has t = "dec": n / 10^k with display scale k.*)
(***************************************************************************)
Undef == [t |-> "undef", n |-> 0, k |-> 0, s |-> <<>>]

Null == [t |-> "null", n |-> 0, k |-> 0, s |-> <<>>]

Bool(b) == [t |-> "bool", n |-> IF b THEN 1 ELSE 0, k |-> 0, s |-> <<>>]

Num(n, k) == [t |-> "num", n |-> n, k |-> k, s |-> <<>>]

IntV(n) == Num(n, 0)

Str(s) == [t |-> "str", n |-> 0, k |-> 0, s |-> s]

Dec(n, k) == [t |-> "dec", n |-> n, k |-> k, s |-> <<>>]

\* JavaScript truthiness, as used by `if (nameLike)`, `if (hasEquity)`,
\* `jsToSql[colName] || colName`, `if (!company)`
Truthy(v) ==
  CASE v.t = "undef" -> FALSE
    [] v.t = "null" -> FALSE
    [] v.t = "bool" -> v.n = 1
    [] v.t = "num" -> v.n # 0
    [] OTHER -> v.s # <<>>

(***************************************************************************)
(* Characters and decimal text.                                            *)
(***************************************************************************)
\* the characters the model uses, in code-point order
Alphabet ==
  <<"%", "-", ".", "0", "1", "2", "3", "4", "5", "6", "7", "8", "9",
    "A", "B", "_", "a", "b", "c", "d", "e", "n", "o", "p", "u", "x">>

CharCode(c) == CHOOSE i \in DOMAIN Alphabet : Alphabet[i] = c

Digits == <<"0", "1", "2", "3", "4", "5", "6", "7", "8", "9">>

IsDigit(c) == \E i \in DOMAIN Digits : Digits[i] = c

DigitVal(c) == (CHOOSE i \in DOMAIN Digits : Digits[i] = c) - 1

Lower(c) == IF c = "A" THEN "a" ELSE IF c = "B" THEN "b" ELSE c

RECURSIVE Pow10(_)
Pow10(k) == IF k = 0 THEN 1 ELSE 10 * Pow10(k - 1)

RECURSIVE DigitsVal(_)
DigitsVal(s) ==
  IF s = <<>> THEN 0
  ELSE 10 * DigitsVal(SubSeq(s, 1, Len(s) - 1)) + DigitVal(s[Len(s)])

RECURSIVE NatToStr(_)
NatToStr(n) ==
  IF n < 10 THEN <<Digits[n + 1]>>
  ELSE NatToStr(n \div 10) \o <<Digits[(n % 10) + 1]>>

RECURSIVE PadLeft(_, _)
PadLeft(s, k) == IF Len(s) >= k THEN s ELSE PadLeft(<<"0">> \o s, k)

\* the decimal text of n / 10^k with exactly k fractional digits
FormatDec(n, k) ==
  LET a == IF n < 0 THEN 0 - n ELSE n
      whole == NatToStr(a \div Pow10(k))
      frac == IF k = 0 THEN <<>> ELSE <<".">> \o PadLeft(NatToStr(a % Pow10(k)), k)
  IN  (IF n < 0 THEN <<"-">> ELSE <<>>) \o whole \o frac

\* the position of the decimal point, Len(body) + 1 when there is none
DotAt(body) ==
  IF \E i \in DOMAIN body : body[i] = "."
  THEN CHOOSE i \in DOMAIN body : body[i] = "."
  ELSE Len(body) + 1

\* digits[.digits] with at least one digit, the point at position dot
DecimalOk(body, dot) ==
  /\ \A i \in DOMAIN body : i = dot \/ IsDigit(body[i])
  /\ Len(body) > (IF dot <= Len(body) THEN 1 ELSE 0)

ParseBody(neg, body, dot) ==
  IF DecimalOk(body, dot)
  THEN [ok |-> TRUE,
        n |-> (IF neg THEN 0 - 1 ELSE 1)
              * DigitsVal(SubSeq(body, 1, dot - 1) \o SubSeq(body, dot + 1, Len(body))),
        k |-> IF dot > Len(body) THEN 0 ELSE Len(body) - dot]
  ELSE [ok |-> FALSE, n |-> 0, k |-> 0]

\* decimal text [-]digits[.digits] read as n / 10^k; ok = FALSE for other text
ParseDec(s) ==
  IF s # <<>> /\ s[1] = "-" THEN ParseBody(TRUE, Tail(s), DotAt(Tail(s)))
  ELSE ParseBody(FALSE, s, DotAt(s))

Parsed(p) == [nan |-> ~p.ok, n |-> p.n, k |-> p.k]

\* JavaScript ToNumber: nan = TRUE for undefined and for non-numeric text
ToNumber(v) ==
  CASE v.t = "undef" -> [nan |-> TRUE, n |-> 0, k |-> 0]
    [] v.t = "null" -> [nan |-> FALSE, n |-> 0, k |-> 0]
    [] v.t = "bool" -> [nan |-> FALSE, n |-> v.n, k |-> 0]
    [] v.t = "num" -> [nan |-> FALSE, n |-> v.n, k |-> v.k]
    [] OTHER ->
         IF v.s = <<>> THEN [nan |-> FALSE, n |-> 0, k |-> 0] ELSE Parsed(ParseDec(v.s))

\* a.n / 10^a.k < b.n / 10^b.k
DecLess(a, b) == a.n * Pow10(b.k) < b.n * Pow10(a.k)

DecEq(a, b) == a.n * Pow10(b.k) = b.n * Pow10(a.k)

RECURSIVE TextLess(_, _)
TextLess(a, b) ==
  IF b = <<>> THEN FALSE
  ELSE IF a = <<>> THEN TRUE
  ELSE IF a[1] = b[1] THEN TextLess(Tail(a), Tail(b))
  ELSE CharCode(a[1]) < CharCode(b[1])

\* JavaScript a < b: two strings compare as text, anything else as numbers,
\* and a comparison with NaN is false
NumLess(x, y) == ~x.nan /\ ~y.nan /\ DecLess(x, y)

JsLess(a, b) ==
  IF a.t = "str" /\ b.t = "str" THEN TextLess(a.s, b.s)
  ELSE NumLess(ToNumber(a), ToNumber(b))

JsGreater(a, b) == JsLess(b, a)

(***************************************************************************)
(* The storage: two tables, and the execution of one statement.            *)
(* A row is a record of cells indexed by column name.                      *)
(***************************************************************************)
ColType(col) ==
  CASE col \in {"num_employees", "salary", "id"} -> "int"
    [] col = "equity" -> "numeric"
    [] OTHER -> "text"

\* a value as the text it is sent as
PgText(v) ==
  CASE v.t = "num" -> FormatDec(v.n, v.k)
    [] v.t = "bool" -> IF v.n = 1 THEN <<"t">> ELSE <<"f">>
    [] OTHER -> v.s

\* decimal text d as a cell of an INTEGER or NUMERIC column
PgNumber(type, d) ==
  IF type = "int"
  THEN [ok |-> d.ok /\ d.k = 0, cell |-> IF d.ok /\ d.k = 0 THEN IntV(d.n) ELSE Null]
  ELSE [ok |-> d.ok, cell |-> IF d.ok THEN Dec(d.n, d.k) ELSE Null]

\* a bound JavaScript value read as a cell of the column type; numbers travel
\* as their decimal text, undefined and null as NULL
PgIn(type, v) ==
  CASE v.t \in {"undef", "null"} -> [ok |-> TRUE, cell |-> Null]
    [] type = "text" -> [ok |-> TRUE, cell |-> Str(PgText(v))]
    [] OTHER -> PgNumber(type, ParseDec(PgText(v)))

\* a cell as the JavaScript value the driver returns: INTEGER as a number,
\* NUMERIC as its decimal text, TEXT as a string, NULL as null
PgOut(cell) == IF cell.t = "dec" THEN Str(FormatDec(cell.n, cell.k)) ELSE cell

\* s LIKE p, case-insensitively: % matches any run, _ any one character
RECURSIVE Like(_, _)
Like(p, s) ==
  IF p = <<>> THEN s = <<>>
  ELSE IF p[1] = "%" THEN Like(Tail(p), s) \/ (s # <<>> /\ Like(p, Tail(s)))
  ELSE /\ s # <<>>
       /\ (p[1] = "_" \/ Lower(p[1]) = Lower(s[1]))
       /\ Like(Tail(p), Tail(s))

Stmt(verb, table, set, insert, where, order, values) ==
  [verb |-> verb, table |-> table, set |-> set, insert |-> insert,
   where |-> where, order |-> order, values |-> values]

Frag(col, op, ph) == [col |-> col, op |-> op, ph |-> ph]

\* every fragment of the statement text, in order of appearance
Fragments(stmt) == stmt.set \o stmt.insert \o stmt.where

\* the $n placeholders of the statement text, in order of appearance
Placeholders(stmt) ==
  LET f == Fragments(stmt)
      F[i \in 0..Len(f)] ==
        IF i = 0 THEN <<>>
        ELSE IF f[i].ph = 0 THEN F[i - 1] ELSE Append(F[i - 1], f[i].ph)
  IN  F[Len(f)]

\* the statement is refused: its placeholders are not $1..$n for the n values
\* supplied, an UPDATE assigns nothing, or a value is not of its column's type
StmtError(stmt) ==
  LET f == Fragments(stmt)
      phs == {f[i].ph : i \in DOMAIN f} \ {0}
  IN  IF phs # 1..Len(stmt.values) THEN TRUE
      ELSE IF stmt.verb = "UPDATE" /\ stmt.set = <<>> THEN TRUE
      ELSE \E i \in DOMAIN f :
             f[i].ph # 0 /\ ~PgIn(ColType(f[i].col), stmt.values[f[i].ph]).ok

\* cell c compared with cell b; a comparison with NULL is not true
Compare(c, op, b) ==
  /\ c.t # "null"
  /\ b.t # "null"
  /\ CASE op = "ILIKE" -> Like(b.s, c.s)
       [] op = ">=" -> ~DecLess(c, b)
       [] op = "<=" -> ~DecLess(b, c)
       [] op = ">" -> DecLess(b, c)
       [] OTHER -> IF c.t = "str" THEN c.s = b.s ELSE DecEq(c, b)

\* one WHERE predicate on one row: the column against $n, or against 0
Holds(row, w, values) ==
  Compare(row[w.col], w.op,
          PgIn(ColType(w.col), IF w.ph = 0 THEN IntV(0) ELSE values[w.ph]).cell)

\* the rows the WHERE clause selects: all its predicates joined by AND
Matching(stmt, rows) ==
  {r \in rows : \A i \in DOMAIN stmt.where : Holds(r, stmt.where[i], stmt.values)}

\* the row with the SET (or VALUES) fragments applied
Assign(row, frags, values) ==
  [c \in DOMAIN row |->
     IF \E i \in DOMAIN frags : frags[i].col = c
     THEN PgIn(ColType(c), values[frags[CHOOSE j \in DOMAIN frags : frags[j].col = c].ph]).cell
     ELSE row[c]]

BlankRow(table, serial) ==
  IF table = "companies"
  THEN [handle |-> Null, name |-> Null, description |-> Null,
        num_employees |-> Null, logo_url |-> Null]
  ELSE [id |-> IntV(serial), title |-> Null, salary |-> Null, equity |-> Null,
        company_handle |-> Null]

Done(rows, after) == [err |-> "", rows |-> rows, after |-> after]

Failed(err, rows) == [err |-> err, rows |-> {}, after |-> rows]

\* INSERT of row r; the handle of a company is unique
Insert(stmt, rows, r) ==
  IF stmt.table = "companies" /\ \E x \in rows : x.handle = r.handle
  THEN Failed("unique", rows)
  ELSE Done({r}, rows \cup {r})

\* the statement on the rows m that its WHERE clause selects
ExecOn(stmt, rows, m, serial) ==
  CASE stmt.verb = "SELECT" -> Done(m, rows)
    [] stmt.verb = "DELETE" -> Done(m, rows \ m)
    [] stmt.verb = "UPDATE" ->
         Done({Assign(r, stmt.set, stmt.values) : r \in m},
              (rows \ m) \cup {Assign(r, stmt.set, stmt.values) : r \in m})
    [] OTHER ->
         Insert(stmt, rows, Assign(BlankRow(stmt.table, serial), stmt.insert, stmt.values))

\* db.query(text, values) on one table: err, the rows returned, the table after
Exec(stmt, rows, serial) ==
  IF StmtError(stmt) THEN Failed("refused", rows)
  ELSE ExecOn(stmt, rows, Matching(stmt, rows), serial)

CellLess(a, b) == IF a.t = "str" THEN TextLess(a.s, b.s) ELSE DecLess(a, b)

\* the orders in which the rows may be returned: sorted by the ORDER BY
\* column, rows of equal key (and all rows, without ORDER BY) in any order
RECURSIVE SortedSeqs(_, _)
SortedSeqs(S, col) ==
  IF S = {} THEN {<<>>}
  ELSE UNION {{<<m>> \o t : t \in SortedSeqs(S \ {m}, col)} :
                m \in {x \in S : col = "" \/ \A y \in S : ~CellLess(y[col], x[col])}}

\* RETURNING / SELECT list of the company statements
CompanyOut(r) ==
  [handle |-> PgOut(r.handle), name |-> PgOut(r.name),
   description |-> PgOut(r.description), numEmployees |-> PgOut(r.num_employees),
   logoUrl |-> PgOut(r.logo_url)]

\* RETURNING / SELECT list of the job statements
JobOut(r) ==
  [id |-> PgOut(r.id), title |-> PgOut(r.title), salary |-> PgOut(r.salary),
   equity |-> PgOut(r.equity), companyHandle |-> PgOut(r.company_handle)]

\* SELECT list of the jobs embedded by Company.get
JobBrief(r) ==
  [id |-> PgOut(r.id), title |-> PgOut(r.title), salary |-> PgOut(r.salary),
   equity |-> PgOut(r.equity)]

CompanyRows(s) == [i \in DOMAIN s |-> CompanyOut(s[i])]

JobRows(s) == [i \in DOMAIN s |-> JobOut(s[i])]

JobBriefRows(s) == [i \in DOMAIN s |-> JobBrief(s[i])]

(***************************************************************************)
(* helpers/sql.js                                                          *)
(* An update request is the sequence of its (key, val) pairs in the order  *)
(* of Object.keys; jsToSql is a function from some keys to column names.   *)
(***************************************************************************)
Keys(dataToUpdate) == [i \in DOMAIN dataToUpdate |-> dataToUpdate[i].key]

\* the values taken in the opposite order of the keys
ValuesReversed(dataToUpdate) ==
  [i \in DOMAIN dataToUpdate |-> dataToUpdate[Len(dataToUpdate) + 1 - i].val]

Values(dataToUpdate) == [i \in DOMAIN dataToUpdate |-> dataToUpdate[i].val]

\* jsToSql[colName] || colName
ColumnOf(jsToSql, colName) ==
  IF colName \in DOMAIN jsToSql /\ jsToSql[colName] # "" THEN jsToSql[colName]
  ELSE colName

\* SetCol numbering its placeholder from 0
SetColFromZero(jsToSql, colName, idx) == Frag(ColumnOf(jsToSql, colName), "=", idx)

\* `"${jsToSql[colName] || colName}"=$${idx + 1}`, idx counted from 0
SetCol(jsToSql, colName, idx) == Frag(ColumnOf(jsToSql, colName), "=", idx + 1)

\* sqlForPartialUpdate without its check for an empty request
sqlForPartialUpdateNoCheck(dataToUpdate, jsToSql) ==
  [err |-> "",
   setCols |-> [i \in DOMAIN dataToUpdate |->
                  SetCol(jsToSql, dataToUpdate[i].key, i - 1)],
   values |-> Values(dataToUpdate)]

sqlForPartialUpdate(dataToUpdate, jsToSql) ==
  LET keys == Keys(dataToUpdate)
  IN  IF Len(keys) = 0
      THEN [err |-> "BadRequestError", setCols |-> <<>>, values |-> <<>>]
      ELSE [err |-> "",
            setCols |-> [i \in DOMAIN keys |-> SetCol(jsToSql, keys[i], i - 1)],
            values |-> Values(dataToUpdate)]

(***************************************************************************)
(* The effect of one call: how it ends (kind), what it returns (val, a     *)
(* sequence of rows), the statements it issued, and the storage after it.  *)
(* A handler is the set of effects the call may have.                      *)
(***************************************************************************)
Eff(kind, val, stmts, C, J, id) ==
  [kind |-> kind, val |-> val, stmts |-> stmts, companies |-> C, jobs |-> J,
   nextId |-> id]

\* `%${nameLike}%`
LikePattern(v) ==
  Str(<<"%">> \o (IF v.t = "num" THEN FormatDec(v.n, v.k) ELSE v.s) \o <<"%">>)

SelectByHandle(handle) ==
  Stmt("SELECT", "companies", <<>>, <<>>, <<Frag("handle", "=", 1)>>, "", <<handle>>)

(***************************************************************************)
(* models/company.js                                                       *)
(***************************************************************************)
CompanyJsToSql == [numEmployees |-> "num_employees", logoUrl |-> "logo_url"]

\* Company.create binding the description before the name
CompanyInsertSwapped(data) ==
  Stmt("INSERT", "companies", <<>>,
       <<Frag("handle", "", 1), Frag("name", "", 2), Frag("description", "", 3),
         Frag("num_employees", "", 4), Frag("logo_url", "", 5)>>,
       <<>>, "",
       <<data.handle, data.description, data.name, data.numEmployees, data.logoUrl>>)

CompanyInsert(data) ==
  Stmt("INSERT", "companies", <<>>,
       <<Frag("handle", "", 1), Frag("name", "", 2), Frag("description", "", 3),
         Frag("num_employees", "", 4), Frag("logo_url", "", 5)>>,
       <<>>, "",
       <<data.handle, data.name, data.description, data.numEmployees, data.logoUrl>>)

\* the INSERT of Company.create, after the duplicate check found nothing
CompanyCreateInsert(C, J, id, stmts, e) ==
  IF e.err # "" THEN {Eff("DbError", <<>>, stmts, C, J, id)}
  ELSE {Eff("ok", <<CompanyOut(r)>>, stmts, e.after, J, id) : r \in e.rows}

CompanyCreateChecked(C, J, id, data, duplicateCheck, e) ==
  IF e.err # "" THEN {Eff("DbError", <<>>, <<duplicateCheck>>, C, J, id)}
  ELSE IF e.rows # {} THEN {Eff("BadRequestError", <<>>, <<duplicateCheck>>, C, J, id)}
  ELSE CompanyCreateInsert(C, J, id, <<duplicateCheck, CompanyInsert(data)>>,
                           Exec(CompanyInsert(data), C, id))

\* Company.create without its duplicate check
CompanyCreateNoCheck(C, J, id, data) ==
  CompanyCreateInsert(C, J, id, <<CompanyInsert(data)>>, Exec(CompanyInsert(data), C, id))

CompanyCreate(C, J, id, data) ==
  CompanyCreateChecked(C, J, id, data, SelectByHandle(data.handle),
                       Exec(SelectByHandle(data.handle), C, id))

\* Company.find writing the placeholder of maxEmployees as a fixed $3
CompanyFindQueryFixed(f) ==
  LET v1 == IF Truthy(f.nameLike) THEN <<LikePattern(f.nameLike)>> ELSE <<>>
      w1 == IF Truthy(f.nameLike) THEN <<Frag("name", "ILIKE", 1)>> ELSE <<>>
      v2 == IF f.minEmployees.t # "undef" THEN Append(v1, f.minEmployees) ELSE v1
      w2 == IF f.minEmployees.t # "undef"
            THEN Append(w1, Frag("num_employees", ">=", Len(v2))) ELSE w1
      v3 == IF f.maxEmployees.t # "undef" THEN Append(v2, f.maxEmployees) ELSE v2
      w3 == IF f.maxEmployees.t # "undef"
            THEN Append(w2, Frag("num_employees", "<=", 3)) ELSE w2
  IN  Stmt("SELECT", "companies", <<>>, <<>>, w3, "name", v3)

\* the WHERE fragments and bound values of Company.find, filter by filter
CompanyFindQuery(f) ==
  LET v1 == IF Truthy(f.nameLike) THEN <<LikePattern(f.nameLike)>> ELSE <<>>
      w1 == IF Truthy(f.nameLike) THEN <<Frag("name", "ILIKE", Len(v1))>> ELSE <<>>
      v2 == IF f.minEmployees.t # "undef" THEN Append(v1, f.minEmployees) ELSE v1
      w2 == IF f.minEmployees.t # "undef"
            THEN Append(w1, Frag("num_employees", ">=", Len(v2))) ELSE w1
      v3 == IF f.maxEmployees.t # "undef" THEN Append(v2, f.maxEmployees) ELSE v2
      w3 == IF f.maxEmployees.t # "undef"
            THEN Append(w2, Frag("num_employees", "<=", Len(v3))) ELSE w2
  IN  Stmt("SELECT", "companies", <<>>, <<>>, w3, "name", v3)

\* the rows of a find, in the order of the query
Found(C, J, id, query, e) ==
  IF e.err # "" THEN {Eff("DbError", <<>>, <<query>>, C, J, id)}
  ELSE {Eff("ok", IF query.table = "jobs" THEN JobRows(rows) ELSE CompanyRows(rows),
            <<query>>, C, J, id) :
          rows \in SortedSeqs(e.rows, query.order)}

\* !(minEmployees < maxEmployees)
MinOverMaxLoose(f) == ~JsLess(f.minEmployees, f.maxEmployees)

\* minEmployees > maxEmployees
MinOverMax(f) == JsGreater(f.minEmployees, f.maxEmployees)

CompanyFind(C, J, id, f) ==
  IF MinOverMax(f)
  THEN {Eff("BadRequestError", <<>>, <<>>, C, J, id)}
  ELSE Found(C, J, id, CompanyFindQuery(f), Exec(CompanyFindQuery(f), C, id))

\* the jobs query of Company.get without its WHERE clause
CompanyJobsQueryAll(handle) == Stmt("SELECT", "jobs", <<>>, <<>>, <<>>, "", <<>>)

CompanyJobsQuery(handle) ==
  Stmt("SELECT", "jobs", <<>>, <<>>, <<Frag("company_handle", "=", 1)>>, "",
       <<handle>>)

WithJobs(company, jobsRows) ==
  [handle |-> company.handle, name |-> company.name,
   description |-> company.description, numEmployees |-> company.numEmployees,
   logoUrl |-> company.logoUrl, jobs |-> jobsRows]

\* the jobs of the company found, added to it
CompanyGetJobs(C, J, id, stmts, company, e) ==
  IF e.err # "" THEN {Eff("DbError", <<>>, stmts, C, J, id)}
  ELSE {Eff("ok", <<WithJobs(CompanyOut(r), JobBriefRows(js))>>, stmts, C, J, id) :
          r \in company, js \in SortedSeqs(e.rows, "")}

CompanyGetFound(C, J, id, handle, companyQuery, e) ==
  IF e.err # "" THEN {Eff("DbError", <<>>, <<companyQuery>>, C, J, id)}
  ELSE IF e.rows = {} THEN {Eff("NotFoundError", <<>>, <<companyQuery>>, C, J, id)}
  ELSE CompanyGetJobs(C, J, id, <<companyQuery, CompanyJobsQuery(handle)>>, e.rows,
                      Exec(CompanyJobsQuery(handle), J, id))

CompanyGet(C, J, id, handle) ==
  CompanyGetFound(C, J, id, handle, SelectByHandle(handle),
                  Exec(SelectByHandle(handle), C, id))

\* handleVarIdx = "$" + (values.length + 1), db.query(querySql, [...values, handle])
CompanyUpdateQuery(handle, setCols, values) ==
  Stmt("UPDATE", "companies", setCols, <<>>,
       <<Frag("handle", "=", Len(values) + 1)>>, "", Append(values, handle))

\* the outcome of a keyed statement on companies: NotFoundError when it
\* returned no row
Keyed(C, J, id, query, e, val) ==
  IF e.err # "" THEN {Eff("DbError", <<>>, <<query>>, C, J, id)}
  ELSE IF e.rows = {} THEN {Eff("NotFoundError", <<>>, <<query>>, e.after, J, id)}
  ELSE {Eff("ok", val, <<query>>, e.after, J, id)}

CompanyUpdateRun(C, J, id, querySql, e) ==
  Keyed(C, J, id, querySql, e, CompanyRows(CHOOSE rows \in SortedSeqs(e.rows, "") : TRUE))

CompanyUpdateWith(C, J, id, handle, u) ==
  IF u.err # "" THEN {Eff(u.err, <<>>, <<>>, C, J, id)}
  ELSE CompanyUpdateRun(C, J, id, CompanyUpdateQuery(handle, u.setCols, u.values),
                        Exec(CompanyUpdateQuery(handle, u.setCols, u.values), C, id))

CompanyUpdate(C, J, id, handle, data) ==
  CompanyUpdateWith(C, J, id, handle, sqlForPartialUpdate(data, CompanyJsToSql))

\* Company.remove without its WHERE clause
CompanyRemoveEvery(handle) ==
  Stmt("DELETE", "companies", <<>>, <<>>, <<>>, "", <<>>)

CompanyRemoveQuery(handle) ==
  Stmt("DELETE", "companies", <<>>, <<>>, <<Frag("handle", "=", 1)>>, "", <<handle>>)

CompanyRemove(C, J, id, handle) ==
  Keyed(C, J, id, CompanyRemoveQuery(handle), Exec(CompanyRemoveQuery(handle), C, id), <<>>)

(***************************************************************************)
(* models/job.js                                                           *)
(***************************************************************************)
JobInsert(data) ==
  Stmt("INSERT", "jobs", <<>>,
       <<Frag("title", "", 1), Frag("salary", "", 2), Frag("equity", "", 3),
         Frag("company_handle", "", 4)>>,
       <<>>, "", <<data.title, data.salary, data.equity, data.companyHandle>>)

\* the range checks without equity > 1
JobInvalidNoUpper(data) ==
  \/ JsLess(data.salary, IntV(0))
  \/ JsLess(data.equity, IntV(0))

\* salary < 0, equity < 0 || equity > 1
JobInvalid(data) ==
  \/ JsLess(data.salary, IntV(0))
  \/ JsLess(data.equity, IntV(0))
  \/ JsGreater(data.equity, IntV(1))

\* the INSERT of Job.create, after the company was found
JobCreateInsert(C, J, id, stmts, e) ==
  IF e.err # "" THEN {Eff("DbError", <<>>, stmts, C, J, id)}
  ELSE {Eff("ok", <<JobOut(r)>>, stmts, C, e.after, id + 1) : r \in e.rows}

JobCreateChecked(C, J, id, data, companyCheck, e) ==
  IF e.err # "" THEN {Eff("DbError", <<>>, <<companyCheck>>, C, J, id)}
  ELSE IF e.rows = {} THEN {Eff("NotFoundError", <<>>, <<companyCheck>>, C, J, id)}
  ELSE JobCreateInsert(C, J, id, <<companyCheck, JobInsert(data)>>,
                       Exec(JobInsert(data), J, id))

\* Job.create without its look-up of the company
JobCreateNoCheck(C, J, id, data) ==
  IF JobInvalid(data) THEN {Eff("BadRequestError", <<>>, <<>>, C, J, id)}
  ELSE JobCreateInsert(C, J, id, <<JobInsert(data)>>, Exec(JobInsert(data), J, id))

\* Job.create checking salary and equity after it looked the company up
JobCreateLateCheck(C, J, id, data) ==
  IF JobInvalid(data)
  THEN {Eff("BadRequestError", <<>>, <<SelectByHandle(data.companyHandle)>>, C, J, id)}
  ELSE JobCreateChecked(C, J, id, data, SelectByHandle(data.companyHandle),
                        Exec(SelectByHandle(data.companyHandle), C, id))

JobCreate(C, J, id, data) ==
  IF JobInvalid(data) THEN {Eff("BadRequestError", <<>>, <<>>, C, J, id)}
  ELSE JobCreateChecked(C, J, id, data, SelectByHandle(data.companyHandle),
                        Exec(SelectByHandle(data.companyHandle), C, id))

\* minSalary !== undefined && typeof minSalary !== "number"
MinSalaryInvalid(f) == f.minSalary.t # "undef" /\ f.minSalary.t # "num"

\* the WHERE fragments and bound values of Job.find, filter by filter
JobFindQuery(f) ==
  LET v1 == IF Truthy(f.titleLike) THEN <<LikePattern(f.titleLike)>> ELSE <<>>
      w1 == IF Truthy(f.titleLike) THEN <<Frag("title", "ILIKE", Len(v1))>> ELSE <<>>
      v2 == IF f.minSalary.t # "undef" THEN Append(v1, f.minSalary) ELSE v1
      w2 == IF f.minSalary.t # "undef"
            THEN Append(w1, Frag("salary", ">=", Len(v2))) ELSE w1
      w3 == IF Truthy(f.hasEquity) THEN Append(w2, Frag("equity", ">", 0)) ELSE w2
  IN  Stmt("SELECT", "jobs", <<>>, <<>>, w3, "id", v2)

JobFind(C, J, id, f) ==
  IF MinSalaryInvalid(f) THEN {Eff("BadRequestError", <<>>, <<>>, C, J, id)}
  ELSE Found(C, J, id, JobFindQuery(f), Exec(JobFindQuery(f), J, id))

JobGetQuery(jobId) ==
  Stmt("SELECT", "jobs", <<>>, <<>>, <<Frag("id", "=", 1)>>, "", <<jobId>>)

JobGetRun(C, J, id, query, e) ==
  IF e.err # "" THEN {Eff("DbError", <<>>, <<query>>, C, J, id)}
  ELSE IF e.rows = {} THEN {Eff("NotFoundError", <<>>, <<query>>, C, J, id)}
  ELSE {Eff("ok", <<JobOut(r)>>, <<query>>, C, J, id) : r \in e.rows}

JobGet(C, J, id, jobId) == JobGetRun(C, J, id, JobGetQuery(jobId), Exec(JobGetQuery(jobId), J, id))

\* class Job defines create, find and get only: Job.update is undefined, and
\* calling it throws a TypeError (Job.update is not a function)
JobUpdate(C, J, id, jobId, data) == {Eff("TypeError", <<>>, <<>>, C, J, id)}

\* Job.remove is undefined as well
JobRemove(C, J, id, jobId) == {Eff("TypeError", <<>>, <<>>, C, J, id)}

(***************************************************************************)
(* The inputs the calls are explored with, and the fixture the storage     *)
(* starts from.                                                            *)
(***************************************************************************)
c1 == Str(<<"c", "1">>)

c2 == Str(<<"c", "2">>)

nope == Str(<<"n", "o", "p", "e">>)

Handles == {c1, c2}

Texts == {<<"a", "b">>, <<"A">>}

Descriptions == {<<"d", "1">>, <<"d", "2">>}

\* filter texts: empty, plain, of the other case, and with a LIKE wildcard
Patterns == {<<>>, <<"a">>, <<"B">>, <<"_", "b">>}

NotANumber == Str(<<"x">>)

Counts == {IntV(n) : n \in 1..MaxNum}

CompanyInputs ==
  [handle : Handles, name : {Str(t) : t \in Texts},
   description : {Str(d) : d \in Descriptions},
   numEmployees : Counts \cup {Null}, logoUrl : {Str(<<"u">>), Null}]

CompanyFilters ==
  [nameLike : {Undef} \cup {Str(p) : p \in Patterns},
   minEmployees : {Undef, NotANumber} \cup {IntV(n) : n \in 0..MaxNum},
   maxEmployees : {Undef, NotANumber} \cup {IntV(n) : n \in 0..MaxNum}]

UpdateValues(key) ==
  CASE key = "name" -> {Str(<<"A">>)}
    [] key = "description" -> {Str(<<"d", "2">>)}
    [] key = "numEmployees" -> {IntV(MaxNum), Null}
    [] OTHER -> {Null}

\* the update requests over the keys: at most MaxKeys pairs, no key twice
UpdateRequests(vals) ==
  LET pairs == {[key |-> k, val |-> v] :
                  k \in DOMAIN vals, v \in UNION {vals[x] : x \in DOMAIN vals}}
      good == {q \in pairs : q.val \in vals[q.key]}
  IN  {d \in UNION {[1..n -> good] : n \in 0..MaxKeys} :
         \A i, j \in DOMAIN d : d[i].key = d[j].key => i = j}

CompanyUpdates ==
  UpdateRequests([key \in {"name", "description", "numEmployees", "logoUrl"} |->
                    UpdateValues(key)])

JobInputs ==
  [title : {Str(t) : t \in Texts},
   salary : {IntV(0 - 1), IntV(0), IntV(MaxNum)},
   equity : {IntV(0), IntV(1), Num(5, 1), Num(15, 1), Num(0 - 5, 1),
             Str(<<"0", ".", "5", "0">>), Str(<<".", "5">>), Null},
   companyHandle : {c1, nope}]

JobFilters ==
  [titleLike : {Undef} \cup {Str(p) : p \in Patterns},
   minSalary : {Undef, NotANumber, Null} \cup {IntV(n) : n \in 0..MaxNum},
   hasEquity : {Undef, Bool(TRUE), Bool(FALSE)}]

SqlValues(key) == {Null, IntV(1), Str(<<"a">>)}

SqlRequests ==
  UpdateRequests([key \in {"name", "numEmployees", "logoUrl"} |-> SqlValues(key)])

\* the column mappings: any function from some of the keys to column names
SqlMappings ==
  UNION {[K -> {"num_employees", "logo_url"}] :
           K \in SUBSET {"name", "numEmployees", "logoUrl"}}

FixtureCompanies ==
  {[handle |-> c1, name |-> Str(<<"a", "b">>), description |-> Str(<<"d", "1">>),
    num_employees |-> IntV(1), logo_url |-> Str(<<"u">>)],
   [handle |-> c2, name |-> Str(<<"A">>), description |-> Str(<<"d", "2">>),
    num_employees |-> IntV(2), logo_url |-> Null]}

FixtureJobs ==
  {[id |-> IntV(1), title |-> Str(<<"a", "b">>), salary |-> IntV(1),
    equity |-> Dec(50, 3), company_handle |-> c1],
   [id |-> IntV(2), title |-> Str(<<"A">>), salary |-> IntV(2),
    equity |-> Dec(0, 0), company_handle |-> c1]}

JobIds == {IntV(n) : n \in 0..(Cardinality(FixtureJobs) + MaxJobs)}

\* update requests for a job: none, a title, a title and a null equity
JobUpdates ==
  {<<>>, <<[key |-> "title", val |-> Str(<<"A">>)]>>,
   <<[key |-> "title", val |-> Str(<<"A">>)], [key |-> "equity", val |-> Null]>>}

(***************************************************************************)
(* The state machine: one action per call, taken when the previous call    *)
(* has returned.                                                           *)
(* The two tables are varied one at a time: the calls that change the      *)
(* companies run against the fixture's jobs, and Job.create against the    *)
(* fixture's companies.                                                    *)
(***************************************************************************)
\* no call is in progress and no result is pending
Idle == [op |-> "idle", args |-> <<>>, kind |-> "ok", val |-> <<>>, stmts |-> <<>>]

\* the requests that are served at the same time
Requests == {1, 2}

\* a request that has no call in progress
NoCall ==
  [op |-> "idle", args |-> <<>>, at |-> "idle", kind |-> "ok", raised |-> "",
   stmts |-> <<>>]

\* a call of a request: at is "insert" between the check of a create and its
\* INSERT, "done" once it has returned or thrown; raised is the error of the
\* storage, if any
InCall(op, args, at, kind, raised, stmts) ==
  [op |-> op, args |-> args, at |-> at, kind |-> kind, raised |-> raised,
   stmts |-> stmts]

Init ==
  /\ companies = FixtureCompanies
  /\ jobs = FixtureJobs
  /\ nextId = Cardinality(FixtureJobs) + 1
  /\ last = Idle
  /\ inflight = [p \in Requests |-> NoCall]
  /\ started = 0

Call(op, args, effects) ==
  \E e \in effects :
    /\ companies' = e.companies
    /\ jobs' = e.jobs
    /\ nextId' = e.nextId
    /\ last' = [op |-> op, args |-> args, kind |-> e.kind, val |-> e.val,
                stmts |-> e.stmts]
    /\ UNCHANGED <<inflight, started>>

CompanyCreateCall ==
  /\ last = Idle
  /\ jobs = FixtureJobs
  /\ \E data \in CompanyInputs :
       Call("Company.create", data, CompanyCreate(companies, jobs, nextId, data))

CompanyFindCall ==
  /\ last = Idle
  /\ \E f \in CompanyFilters :
       Call("Company.find", f, CompanyFind(companies, jobs, nextId, f))

CompanyGetCall ==
  /\ last = Idle
  /\ \E handle \in Handles \cup {nope} :
       Call("Company.get", [handle |-> handle],
            CompanyGet(companies, jobs, nextId, handle))

CompanyUpdateCall ==
  /\ last = Idle
  /\ jobs = FixtureJobs
  /\ \E handle \in Handles \cup {nope}, data \in CompanyUpdates :
       Call("Company.update", [handle |-> handle, data |-> data],
            CompanyUpdate(companies, jobs, nextId, handle, data))

CompanyRemoveCall ==
  /\ last = Idle
  /\ jobs = FixtureJobs
  /\ \E handle \in Handles \cup {nope} :
       Call("Company.remove", [handle |-> handle],
            CompanyRemove(companies, jobs, nextId, handle))

JobCreateCall ==
  /\ last = Idle
  /\ companies \subseteq FixtureCompanies
  /\ Cardinality(jobs) < Cardinality(FixtureJobs) + MaxJobs
  /\ \E data \in JobInputs :
       Call("Job.create", data, JobCreate(companies, jobs, nextId, data))

JobFindCall ==
  /\ last = Idle
  /\ \E f \in JobFilters : Call("Job.find", f, JobFind(companies, jobs, nextId, f))

JobGetCall ==
  /\ last = Idle
  /\ \E jobId \in JobIds :
       Call("Job.get", [id |-> jobId], JobGet(companies, jobs, nextId, jobId))

JobUpdateCall ==
  /\ last = Idle
  /\ \E jobId \in JobIds, data \in JobUpdates :
       Call("Job.update", [id |-> jobId, data |-> data],
            JobUpdate(companies, jobs, nextId, jobId, data))

JobRemoveCall ==
  /\ last = Idle
  /\ \E jobId \in JobIds :
       Call("Job.remove", [id |-> jobId], JobRemove(companies, jobs, nextId, jobId))

\* sqlForPartialUpdate on its own, with every request and every mapping; it
\* reads no storage, so it is explored against the fixture only
SqlCall ==
  /\ last = Idle
  /\ companies = FixtureCompanies
  /\ jobs = FixtureJobs
  /\ \E dataToUpdate \in SqlRequests, jsToSql \in SqlMappings :
       LET u == sqlForPartialUpdate(dataToUpdate, jsToSql)
       IN  /\ last' = [op |-> "sqlForPartialUpdate",
                       args |-> [dataToUpdate |-> dataToUpdate, jsToSql |-> jsToSql],
                       kind |-> IF u.err = "" THEN "ok" ELSE u.err,
                       val |-> <<[setCols |-> u.setCols, values |-> u.values]>>,
                       stmts |-> <<>>]
           /\ UNCHANGED <<companies, jobs, nextId, inflight, started>>

\* the caller takes the result of the call
Return ==
  /\ last # Idle
  /\ last' = Idle
  /\ UNCHANGED <<companies, jobs, nextId, inflight, started>>

Next ==
  \/ SqlCall
  \/ CompanyCreateCall
  \/ CompanyFindCall
  \/ CompanyGetCall
  \/ CompanyUpdateCall
  \/ CompanyRemoveCall
  \/ JobCreateCall
  \/ JobFindCall
  \/ JobGetCall
  \/ JobUpdateCall
  \/ JobRemoveCall
  \/ Return

Spec == Init /\ [][Next]_vars

(***************************************************************************)
(* Overlapping calls.  Each await db.query(...) is a point where another   *)
(* request can run, so a create is two steps: its check and its INSERT.    *)
(***************************************************************************)
c3 == Str(<<"c", "3">>)

OverlapCompanies ==
  [handle : {c1, c3}, name : {Str(<<"a", "b">>)}, description : {Str(<<"d", "1">>)},
   numEmployees : {IntV(1)}, logoUrl : {Null}]

OverlapJobs ==
  [title : {Str(<<"a", "b">>)}, salary : {IntV(0), IntV(0 - 1)}, equity : {IntV(1)},
   companyHandle : {c1, c3}]

\* the request as it stands after the duplicate check of Company.create
AfterDuplicateCheck(data, duplicateCheck, e) ==
  IF e.err # "" THEN InCall("Company.create", data, "done", "DbError", e.err, <<duplicateCheck>>)
  ELSE IF e.rows # {}
  THEN InCall("Company.create", data, "done", "BadRequestError", "", <<duplicateCheck>>)
  ELSE InCall("Company.create", data, "insert", "ok", "", <<duplicateCheck>>)

\* the request as it stands after the company check of Job.create
AfterCompanyCheck(data, companyCheck, e) ==
  IF e.err # "" THEN InCall("Job.create", data, "done", "DbError", e.err, <<companyCheck>>)
  ELSE IF e.rows = {}
  THEN InCall("Job.create", data, "done", "NotFoundError", "", <<companyCheck>>)
  ELSE InCall("Job.create", data, "insert", "ok", "", <<companyCheck>>)

\* the request takes the outcome e of its last statement, which raised err
Finish(p, e, err) ==
  /\ companies' = e.companies
  /\ jobs' = e.jobs
  /\ nextId' = e.nextId
  /\ inflight' = [inflight EXCEPT ![p] =
                    InCall(@.op, @.args, "done", e.kind, err, e.stmts)]
  /\ UNCHANGED <<last, started>>

Begin(p, call) ==
  /\ inflight' = [inflight EXCEPT ![p] = call]
  /\ started' = started + 1
  /\ UNCHANGED <<companies, jobs, nextId, last>>

\* Company.create up to the answer of its duplicate check
CompanyCreateCheck(p) ==
  /\ inflight[p].at = "idle"
  /\ started < MaxCalls
  /\ \E data \in OverlapCompanies :
       Begin(p, AfterDuplicateCheck(data, SelectByHandle(data.handle),
                                    Exec(SelectByHandle(data.handle), companies, nextId)))

\* Company.create from its INSERT on
CompanyCreateFinish(p) ==
  /\ inflight[p].op = "Company.create"
  /\ inflight[p].at = "insert"
  /\ \E e \in CompanyCreateInsert(companies, jobs, nextId,
                                  Append(inflight[p].stmts, CompanyInsert(inflight[p].args)),
                                  Exec(CompanyInsert(inflight[p].args), companies, nextId)) :
       Finish(p, e, Exec(CompanyInsert(inflight[p].args), companies, nextId).err)

\* Job.create up to the answer of its company check
JobCreateCheck(p) ==
  /\ inflight[p].at = "idle"
  /\ started < MaxCalls
  /\ Cardinality(jobs) < Cardinality(FixtureJobs) + MaxJobs
  /\ \E data \in OverlapJobs :
       Begin(p, IF JobInvalid(data)
                THEN InCall("Job.create", data, "done", "BadRequestError", "", <<>>)
                ELSE AfterCompanyCheck(data, SelectByHandle(data.companyHandle),
                                       Exec(SelectByHandle(data.companyHandle), companies,
                                            nextId)))

\* Job.create from its INSERT on
JobCreateFinish(p) ==
  /\ inflight[p].op = "Job.create"
  /\ inflight[p].at = "insert"
  /\ \E e \in JobCreateInsert(companies, jobs, nextId,
                              Append(inflight[p].stmts, JobInsert(inflight[p].args)),
                              Exec(JobInsert(inflight[p].args), jobs, nextId)) :
       Finish(p, e, Exec(JobInsert(inflight[p].args), jobs, nextId).err)

\* Company.remove, one statement
CompanyRemoveWhole(p) ==
  /\ inflight[p].at = "idle"
  /\ started < MaxCalls
  /\ \E handle \in {c1, c3} :
       \E e \in CompanyRemove(companies, jobs, nextId, handle) :
         /\ companies' = e.companies
         /\ inflight' = [inflight EXCEPT ![p] =
                           InCall("Company.remove", [handle |-> handle], "done", e.kind,
                                  "", e.stmts)]
         /\ started' = started + 1
         /\ UNCHANGED <<jobs, nextId, last>>

\* the caller of the request takes the result
Respond(p) ==
  /\ inflight[p].at = "done"
  /\ inflight' = [inflight EXCEPT ![p] = NoCall]
  /\ UNCHANGED <<companies, jobs, nextId, last, started>>

NextOverlap ==
  \E p \in Requests :
    \/ CompanyCreateCheck(p)
    \/ CompanyCreateFinish(p)
    \/ JobCreateCheck(p)
    \/ JobCreateFinish(p)
    \/ CompanyRemoveWhole(p)
    \/ Respond(p)

SpecOverlap == Init /\ [][NextOverlap]_vars

(***************************************************************************)
(* Properties.                                                             *)
(***************************************************************************)
\* the column a key is written to: its mapped name, the key itself when unmapped
MappedName(jsToSql, key) == IF key \in DOMAIN jsToSql THEN jsToSql[key] ELSE key

OneToN(n) == [i \in 1..n |-> i]

\* C1: for a non-empty update request with keys k1..kn and any column mapping,
\* sqlForPartialUpdate returns exactly n assignments, the i-th being
\* "<mapped name of ki>"=$i, and n values, the i-th being the value supplied
\* for ki; a null value stays in the list.
C1_PartialUpdateClause ==
  (last.op = "sqlForPartialUpdate" /\ last.args.dataToUpdate # <<>>) =>
    LET d == last.args.dataToUpdate
        r == last.val[1]
    IN  /\ last.kind = "ok"
        /\ Len(r.setCols) = Len(d)
        /\ Len(r.values) = Len(d)
        /\ \A i \in DOMAIN d :
             /\ r.setCols[i] = Frag(MappedName(last.args.jsToSql, d[i].key), "=", i)
             /\ r.values[i] = d[i].val

\* a request of two fields, the first mapped and null, the second unmapped
C1_Witness ==
  /\ last.op = "sqlForPartialUpdate"
  /\ last.kind = "ok"
  /\ Len(last.args.dataToUpdate) = 2
  /\ last.args.dataToUpdate[1].val = Null
  /\ last.args.dataToUpdate[1].key \in DOMAIN last.args.jsToSql
  /\ last.args.dataToUpdate[2].key \notin DOMAIN last.args.jsToSql
  /\ last.val[1].values[1] = Null

\* the fragment of the statement that carries placeholder $i
FragmentOf(stmt, i) ==
  LET f == Fragments(stmt)
  IN  f[CHOOSE j \in DOMAIN f : f[j].ph = i]

PlaceholdersInOrder(stmt) == Placeholders(stmt) = OneToN(Len(stmt.values))

\* C2: in every statement of Company.find, Job.find and Company.update the
\* placeholders are $1..$n in order of appearance, n the number of bound
\* values, and each placeholder sits in the fragment whose value is at its
\* position; hasEquity adds a fragment with no placeholder, and Company.update
\* binds the handle at $n+1 after its n assignments.
C2_PlaceholdersMatchValues ==
  \A q \in DOMAIN last.stmts :
    LET stmt == last.stmts[q]
        a == last.args
    IN  /\ last.op = "Company.find" =>
             /\ PlaceholdersInOrder(stmt)
             /\ \A i \in DOMAIN stmt.where :
                  LET w == stmt.where[i]
                  IN  /\ w.op = "ILIKE" => stmt.values[w.ph] = LikePattern(a.nameLike)
                      /\ w.op = ">=" => stmt.values[w.ph] = a.minEmployees
                      /\ w.op = "<=" => stmt.values[w.ph] = a.maxEmployees
             /\ Len(stmt.where) = Len(stmt.values)
        /\ last.op = "Job.find" =>
             /\ PlaceholdersInOrder(stmt)
             /\ \A i \in DOMAIN stmt.where :
                  LET w == stmt.where[i]
                  IN  /\ w.op = "ILIKE" => stmt.values[w.ph] = LikePattern(a.titleLike)
                      /\ w.op = ">=" => stmt.values[w.ph] = a.minSalary
                      /\ w.op = ">" => w.ph = 0 /\ w.col = "equity"
             /\ Len(stmt.where) = Len(stmt.values) + (IF Truthy(a.hasEquity) THEN 1 ELSE 0)
        /\ last.op = "Company.update" =>
             LET n == Len(a.data)
             IN  /\ PlaceholdersInOrder(stmt)
                 /\ Len(stmt.values) = n + 1
                 /\ Len(stmt.set) = n
                 /\ \A i \in 1..n :
                      /\ stmt.set[i].ph = i
                      /\ stmt.set[i].col = MappedName(CompanyJsToSql, a.data[i].key)
                      /\ stmt.values[i] = a.data[i].val
                 /\ stmt.where = <<Frag("handle", "=", n + 1)>>
                 /\ stmt.values[n + 1] = a.handle

\* Job.find with titleLike, minSalary and hasEquity together: three fragments,
\* two placeholders
C2_Witness ==
  /\ last.op = "Job.find"
  /\ last.kind = "ok"
  /\ Len(last.stmts) = 1
  /\ Len(last.stmts[1].where) = 3
  /\ Placeholders(last.stmts[1]) = <<1, 2>>
  /\ last.stmts[1].where[3].ph = 0

\* C3: sqlForPartialUpdate with an empty request fails with BadRequestError
\* whatever the mapping, and Company.update(handle, {}) fails with it for every
\* handle, stored or not, issuing nothing and changing no stored company.
C3_EmptyUpdateRejected ==
  [][/\ (last'.op = "sqlForPartialUpdate" /\ last'.args.dataToUpdate = <<>>) =>
          last'.kind = "BadRequestError"
     /\ (last'.op = "Company.update" /\ last'.args.data = <<>>) =>
          /\ last'.kind = "BadRequestError"
          /\ last'.stmts = <<>>
          /\ companies' = companies]_vars

\* Company.update with no data and a handle that is not stored
C3_Witness ==
  /\ last.op = "Company.update"
  /\ last.args.data = <<>>
  /\ last.args.handle = nope
  /\ last.kind = "BadRequestError"
  /\ companies # {}

\* text sub occurs in text s, letters compared without regard to case
Contains(sub, s) ==
  \E i \in 1..(Len(s) + 1) :
    /\ i + Len(sub) - 1 <= Len(s)
    /\ \A j \in 1..Len(sub) : Lower(s[i + j - 1]) = Lower(sub[j])

Supplied(v) == v.t # "undef"

\* the stored company satisfies every supplied filter
CompanySatisfies(r, f) ==
  /\ Supplied(f.nameLike) => Contains(f.nameLike.s, r.name.s)
  /\ Supplied(f.minEmployees) =>
       r.num_employees # Null /\ r.num_employees.n >= f.minEmployees.n
  /\ Supplied(f.maxEmployees) =>
       r.num_employees # Null /\ r.num_employees.n <= f.maxEmployees.n

\* the stored job satisfies every supplied filter
JobSatisfies(r, f) ==
  /\ Supplied(f.titleLike) => Contains(f.titleLike.s, r.title.s)
  /\ Supplied(f.minSalary) => r.salary # Null /\ r.salary.n >= f.minSalary.n
  /\ Truthy(f.hasEquity) => r.equity # Null /\ r.equity.n > 0

Returned(val) == {val[i] : i \in DOMAIN val}

\* C4: a find that returns, returns exactly the stored rows that satisfy all
\* the supplied filters together, each once: Company.find the companies whose
\* name contains nameLike (case-insensitively) and whose numEmployees lies
\* between minEmployees and maxEmployees, Job.find the jobs whose title
\* contains titleLike, whose salary is >= minSalary and, when hasEquity is
\* truthy, whose equity is > 0; with no filter, every stored row.
C4_FindReturnsMatching ==
  /\ (last.op = "Company.find" /\ last.kind = "ok") =>
       /\ Returned(last.val) =
            {CompanyOut(r) : r \in {x \in companies : CompanySatisfies(x, last.args)}}
       /\ Len(last.val) = Cardinality(Returned(last.val))
  /\ (last.op = "Job.find" /\ last.kind = "ok") =>
       /\ Returned(last.val) = {JobOut(r) : r \in {x \in jobs : JobSatisfies(x, last.args)}}
       /\ Len(last.val) = Cardinality(Returned(last.val))

\* C5: Company.find with minEmployees > maxEmployees, both numbers, fails with
\* BadRequestError and has issued no statement; with minEmployees =
\* maxEmployees it returns; with only one of the two supplied it never fails
\* with BadRequestError.
C5_MinOverMaxRejected ==
  last.op = "Company.find" =>
    LET min == last.args.minEmployees
        max == last.args.maxEmployees
    IN  /\ (min.t = "num" /\ max.t = "num" /\ min.n > max.n) =>
             last.kind = "BadRequestError" /\ last.stmts = <<>>
        /\ (min.t = "num" /\ max.t = "num" /\ min.n = max.n) => last.kind = "ok"
        /\ (Supplied(min) # Supplied(max)) => last.kind # "BadRequestError"

\* Company.find refused for minEmployees above maxEmployees, by one
C5_Witness ==
  /\ last.op = "Company.find"
  /\ last.args.minEmployees = IntV(2)
  /\ last.args.maxEmployees = IntV(1)
  /\ last.kind = "BadRequestError"
  /\ last.stmts = <<>>

\* the statements of the call that bind value v
Carrying(v) == {q \in DOMAIN last.stmts : \E i \in DOMAIN last.stmts[q].values :
                                            last.stmts[q].values[i] = v}

\* C6: a find given a value that is not a number for a numeric filter
\* (minSalary of Job.find, minEmployees or maxEmployees of Company.find) fails
\* with BadRequestError and has executed no statement that carries the value.
C6_NonNumericRejected ==
  (\/ last.op = "Job.find" /\ last.args.minSalary = NotANumber
   \/ last.op = "Company.find" /\ last.args.minEmployees = NotANumber
   \/ last.op = "Company.find" /\ last.args.maxEmployees = NotANumber) =>
    /\ last.kind = "BadRequestError"
    /\ Carrying(NotANumber) = {}

Operations == {"Company.create", "Company.find", "Company.update", "Job.create", "Job.find"}

\* C7 as stated: an operation that ends with BadRequestError has issued no
\* statement.
C7_NothingIssuedBeforeRejection ==
  (last.op \in Operations /\ last.kind = "BadRequestError") => last.stmts = <<>>

\* C7: an operation that ends with BadRequestError has issued no statement,
\* except Company.create rejecting a handle that is already stored, which has
\* issued its duplicate-check SELECT and nothing else.
C7_OnlyDuplicateCheckBeforeRejection ==
  (last.op \in Operations /\ last.kind = "BadRequestError") =>
    IF last.op = "Company.create"
    THEN /\ Len(last.stmts) = 1
         /\ last.stmts[1].verb = "SELECT"
         /\ \E r \in companies : r.handle = last.args.handle
    ELSE last.stmts = <<>>

\* Company.create rejected for a handle that is stored
C7_DuplicateRejected ==
  /\ last.op = "Company.create"
  /\ last.kind = "BadRequestError"
  /\ Len(last.stmts) = 1

CompanyFields == {"handle", "name", "description", "numEmployees", "logoUrl"}

\* the company that get shows is the one passed to create
CompanyRoundTrip ==
  (last.op = "Company.create" /\ last.kind = "ok") =>
    \A e \in CompanyGet(companies, jobs, nextId, last.val[1].handle) :
      /\ e.kind = "ok"
      /\ \A k \in CompanyFields : e.val[1][k] = last.args[k]

\* the decimal text out denotes the amount passed in
SameAmount(out, in) ==
  IF in = Null THEN out = Null
  ELSE /\ out.t = "str"
       /\ ~ToNumber(out).nan
       /\ DecEq(ToNumber(out), ToNumber(in))

\* C8 as stated: after a successful create, get of the returned key shows every
\* field equal to the one passed to create, the equity of a job included.
C8_CreateThenGetEqual ==
  /\ CompanyRoundTrip
  /\ (last.op = "Job.create" /\ last.kind = "ok") =>
       \A e \in JobGet(companies, jobs, nextId, last.val[1].id) :
         /\ e.kind = "ok"
         /\ \A k \in {"title", "salary", "equity", "companyHandle"} :
              e.val[1][k] = last.args[k]

\* C8: after a successful create, get of the returned key shows the company
\* with handle, name, description, numEmployees and logoUrl equal to those
\* passed, and the job with title, salary and companyHandle equal to those
\* passed and with equity as a decimal string of the amount passed (null for
\* null).
C8_CreateThenGet ==
  /\ CompanyRoundTrip
  /\ (last.op = "Job.create" /\ last.kind = "ok") =>
       \A e \in JobGet(companies, jobs, nextId, last.val[1].id) :
         /\ e.kind = "ok"
         /\ \A k \in {"title", "salary", "companyHandle"} : e.val[1][k] = last.args[k]
         /\ SameAmount(e.val[1].equity, last.args.equity)

\* a job created with the number 0.5 as equity, stored as the decimal 0.5
C8_Witness ==
  /\ last.op = "Job.create"
  /\ last.kind = "ok"
  /\ last.args.equity = Num(5, 1)
  /\ last.val[1].equity = Str(<<"0", ".", "5">>)
  /\ \E r \in jobs : r.id = last.val[1].id /\ r.equity = Dec(5, 1)

\* the value data supplies for field k, the value of before when it has none
Expected(data, before, k) ==
  IF \E i \in DOMAIN data : data[i].key = k
  THEN data[CHOOSE i \in DOMAIN data : data[i].key = k].val
  ELSE before[k]

Others(C, handle) == {r \in C : r.handle # handle}

\* C9: after Company.update(handle, data) succeeded, Company.get(handle) shows
\* each field of data with the value supplied, null included, and each other
\* field with its value from before; the row keeps its handle, and every other
\* company and every job is as before.
C9_UpdateChangesOnlySupplied ==
  [][(last'.op = "Company.update" /\ last'.kind = "ok") =>
       /\ last'.args.data # <<>>
       /\ \E r \in companies : r.handle = last'.args.handle
       /\ \A r \in companies : r.handle = last'.args.handle =>
            \A e \in CompanyGet(companies', jobs', nextId', last'.args.handle) :
              /\ e.kind = "ok"
              /\ e.val[1].handle = last'.args.handle
              /\ \A k \in CompanyFields \ {"handle"} :
                   e.val[1][k] = Expected(last'.args.data, CompanyOut(r), k)
       /\ Others(companies', last'.args.handle) = Others(companies, last'.args.handle)
       /\ Cardinality(companies') = Cardinality(companies)
       /\ jobs' = jobs]_vars

\* an update of name and description together, and one that sets a field null
C9_Witness ==
  /\ last.op = "Company.update"
  /\ last.kind = "ok"
  /\ Len(last.args.data) = 2
  /\ last.args.data[1].key = "description"
  /\ last.args.data[2] = [key |-> "logoUrl", val |-> Null]
  /\ \E r \in companies :
       r.handle = last.args.handle /\ r.logo_url = Null /\ r.num_employees # Null

Stored(C, handle) == \E r \in C : r.handle = handle

\* C10: Company.update with data and Company.remove, for a handle that is not
\* stored, fail with NotFoundError and leave the companies as they were;
\* Company.remove of a stored handle deletes that company and no other, and
\* Company.get of the handle then fails with NotFoundError.
C10_MissingHandleAndRemove ==
  [][/\ (/\ \/ last'.op = "Company.update" /\ last'.args.data # <<>>
            \/ last'.op = "Company.remove"
         /\ ~Stored(companies, last'.args.handle)) =>
          last'.kind = "NotFoundError" /\ companies' = companies
     /\ (last'.op = "Company.remove" /\ Stored(companies, last'.args.handle)) =>
          /\ last'.kind = "ok"
          /\ companies' = Others(companies, last'.args.handle)
          /\ Cardinality(companies') = Cardinality(companies) - 1
          /\ \A e \in CompanyGet(companies', jobs', nextId', last'.args.handle) :
               e.kind = "NotFoundError"]_vars

\* an update of a company that was removed before, one company remaining
C10_Witness ==
  /\ last.op = "Company.update"
  /\ last.args.data # <<>>
  /\ last.kind = "NotFoundError"
  /\ last.args.handle = c1
  /\ Cardinality(companies) = 1

StoredJob(J, jobId) == \E r \in J : r.id = jobId

\* C11: Job.update(id, data) with data, and Job.remove(id), for an id that no
\* stored job has, fail with NotFoundError and leave the jobs as they were.
C11_JobUpdateRemoveMissing ==
  [][(/\ \/ last'.op = "Job.update" /\ last'.args.data # <<>>
         \/ last'.op = "Job.remove"
      /\ ~StoredJob(jobs, last'.args.id)) =>
       last'.kind = "NotFoundError" /\ jobs' = jobs]_vars

\* C12 as stated: Company.create with a handle that is stored fails with
\* ConflictError and changes no company.
C12_DuplicateConflict ==
  [][(last'.op = "Company.create" /\ Stored(companies, last'.args.handle)) =>
       last'.kind = "ConflictError" /\ companies' = companies]_vars

\* C12: Company.create with a handle that is stored fails with BadRequestError,
\* the kind of the validation errors, inserts nothing and leaves the stored
\* companies, the one with that handle included, as they were.
C12_DuplicateRejected ==
  [][(last'.op = "Company.create" /\ Stored(companies, last'.args.handle)) =>
       /\ last'.kind = "BadRequestError"
       /\ \A q \in DOMAIN last'.stmts : last'.stmts[q].verb # "INSERT"
       /\ companies' = companies]_vars

\* a create refused for the handle of a stored company of another name
C12_Witness ==
  /\ last.op = "Company.create"
  /\ last.kind = "BadRequestError"
  /\ \E r \in companies : r.handle = last.args.handle /\ r.name # last.args.name
  /\ Cardinality(companies) = Cardinality(FixtureCompanies)

Zero == [nan |-> FALSE, n |-> 0, k |-> 0]

One == [nan |-> FALSE, n |-> 1, k |-> 0]

\* salary >= 0 and 0 <= equity <= 1, as numbers
ValidAmounts(data) ==
  /\ ~DecLess(ToNumber(data.salary), Zero)
  /\ ~DecLess(ToNumber(data.equity), Zero)
  /\ ~DecLess(One, ToNumber(data.equity))

\* C13: Job.create with valid salary and equity fails with NotFoundError and
\* inserts no job when no stored company has its companyHandle, whatever the
\* title; when a stored company has it, it inserts exactly one job, under an id
\* that no stored job had, and returns that id.
C13_JobCreateNeedsCompany ==
  [][(last'.op = "Job.create" /\ ValidAmounts(last'.args)) =>
       IF Stored(companies, last'.args.companyHandle)
       THEN /\ last'.kind = "ok"
            /\ \E r \in jobs' :
                 /\ jobs' = jobs \cup {r}
                 /\ ~StoredJob(jobs, r.id)
                 /\ last'.val[1].id = r.id
                 /\ r.company_handle = last'.args.companyHandle
            /\ Cardinality(jobs') = Cardinality(jobs) + 1
       ELSE /\ last'.kind = "NotFoundError"
            /\ jobs' = jobs]_vars

\* a job refused for the handle of a company that was removed before
C13_Witness ==
  /\ last.op = "Job.create"
  /\ last.kind = "NotFoundError"
  /\ last.args.companyHandle = c1
  /\ ValidAmounts(last.args)
  /\ ~Stored(companies, c1)
  /\ Len(last.stmts) = 1

\* the jobs that Job.create stored: those with an id after the fixture's
Created(J) == {r \in J : r.id.n > Cardinality(FixtureJobs)}

\* C14: Job.create with salary < 0, equity < 0 or equity > 1 fails with
\* BadRequestError and has issued no statement; salary 0, equity 0 and equity 1
\* are accepted; and every job that Job.create stored has salary >= 0 and
\* 0 <= equity <= 1 (a null equity, which is neither below 0 nor above 1, is
\* stored as null).
C14_JobRangesChecked ==
  /\ (last.op = "Job.create" /\ ~ValidAmounts(last.args)) =>
       last.kind = "BadRequestError" /\ last.stmts = <<>>
  /\ (/\ last.op = "Job.create"
      /\ last.args.salary = IntV(0)
      /\ last.args.equity \in {IntV(0), IntV(1)}
      /\ Stored(companies, last.args.companyHandle)) =>
       last.kind = "ok"
  /\ \A r \in Created(jobs) :
       /\ r.salary.t = "num" /\ r.salary.n >= 0
       /\ r.equity.t \in {"dec", "null"}
       /\ r.equity.n >= 0
       /\ r.equity.n <= Pow10(r.equity.k)

\* a job stored with salary 0 and equity 1, the two bounds
C14_Witness ==
  /\ last.op = "Job.create"
  /\ last.kind = "ok"
  /\ last.args.salary = IntV(0)
  /\ last.args.equity = IntV(1)
  /\ \E r \in Created(jobs) : r.salary = IntV(0) /\ r.equity = Dec(1, 0)

JobsOf(J, handle) == {r \in J : r.company_handle = handle}

C16_FindRepeatable ==
  /\ (last.op = "Job.find" /\ last.kind = "ok") =>
       \A e \in JobFind(companies, jobs, nextId, last.args) : e.val = last.val
  /\ (last.op = "Company.find" /\ last.kind = "ok") =>
       \A e \in CompanyFind(companies, jobs, nextId, last.args) : e.val = last.val

\* C15: when two Company.create calls for one handle overlap so that both
\* duplicate checks run before either INSERT, at most one company of that
\* handle is ever stored, and the call whose INSERT met the uniqueness
\* constraint fails with ConflictError.
C15_OverlappingCreates ==
  /\ \A r, x \in companies : r.handle = x.handle => r = x
  /\ \A p \in Requests :
       (/\ inflight[p].op = "Company.create"
        /\ inflight[p].at = "done"
        /\ inflight[p].raised = "unique") =>
         inflight[p].kind = "ConflictError"

\* C18: in every reachable state, also when a Company.remove runs between the
\* company check of a Job.create and its INSERT, the companyHandle of every
\* stored job is the handle of a stored company.
C18_JobsHaveCompanies ==
  \A r \in jobs : Stored(companies, r.company_handle)

====
